---- MODULE Spec2Model ----
(***************************************************************************)
(* Model of src/src/scene/scene.rs: the Scene / SceneMut handles around a  *)
(* foreign AiScene object, their conversion and destruction, and the read  *)
(* accessors over the foreign object's flag word and entity arrays.        *)
(***************************************************************************)
EXTENDS Integers, Sequences, FiniteSets, TLC

\* ---------------------------------------------------------------- bounds
\* Foreign scene objects the library can hand out in one run.
MaxScenes == 3
\* Handle values (Scene or SceneMut) created in one run.
MaxHandles == 3
\* Longest entity array of a foreign scene.
MaxLen == 3

\* ------------------------------------------------------- foreign constants
\* ptr::null_mut()
NULL == 0
\* The flag bits of the foreign flag word, as the accessors name them.
AI_SCENE_FLAGS_INCOMPLETE == 1
AI_SCENE_FLAGS_VALIDATED == 2
AI_SCENE_FLAGS_VALIDATION_WARNING == 4
AI_SCENE_FLAGS_NON_VERBOSE_FORMAT == 8
AI_SCENE_FLAGS_TERRAIN == 16

FlagBits == {AI_SCENE_FLAGS_INCOMPLETE, AI_SCENE_FLAGS_VALIDATED,
             AI_SCENE_FLAGS_VALIDATION_WARNING,
             AI_SCENE_FLAGS_NON_VERBOSE_FORMAT, AI_SCENE_FLAGS_TERRAIN}
AllFlagWords == 0 .. 31

Kinds == {"meshes", "materials", "animations", "textures", "lights", "cameras"}

ScenePtrs == 1 .. MaxScenes
HandleIds == 1 .. MaxHandles

\* ------------------------------------------------------- the foreign object
\* The address of the i-th entity of kind k owned by scene object p, and of
\* its root node.  Entities live and die with the scene object that owns them.
EntPtr(p, k, i) == <<p, k, i>>
RootPtr(p) == <<p, "node", 0>>

\* An AiScene as the accessors see it: the flag word, the root node pointer
\* and, per entity kind, the count field and the array of entity pointers.
\* `data` is what each entity of the array holds.
AiScene(p, prov, flags, data) ==
    [state |-> "live", prov |-> prov, flags |-> flags, root_node |-> RootPtr(p),
     num   |-> [k \in Kinds |-> Len(data[k])],
     items |-> [k \in Kinds |-> [i \in 1 .. Len(data[k]) |-> EntPtr(p, k, i)]],
     data  |-> data]

NoData == [k \in Kinds |-> << >>]

\* Memory no object lives in (never allocated, or given back to the library).
Vacant(st, prov) ==
    [state |-> st, prov |-> prov, flags |-> 0, root_node |-> RootPtr(NULL),
     num |-> [k \in Kinds |-> 0], items |-> NoData, data |-> NoData]

\* ------------------------------------------------------------ flag queries
RECURSIVE BitAnd(_, _)
BitAnd(a, b) ==
    IF a = 0 \/ b = 0 THEN 0
    ELSE (a % 2) * (b % 2) + 2 * BitAnd(a \div 2, b \div 2)

\* bitflags' contains: every bit of `other` is set in `flags`.
contains(flags, other) == BitAnd(flags, other) = other

is_incomplete(sc) == contains(sc.flags, AI_SCENE_FLAGS_INCOMPLETE)

is_validated(sc) == contains(sc.flags, AI_SCENE_FLAGS_VALIDATED)

has_validation_warning_WrongBit(sc) == contains(sc.flags, AI_SCENE_FLAGS_VALIDATED)

has_validation_warning(sc) == contains(sc.flags, AI_SCENE_FLAGS_VALIDATION_WARNING)

is_non_verbose_format(sc) == contains(sc.flags, AI_SCENE_FLAGS_NON_VERBOSE_FORMAT)

is_terrain(sc) == contains(sc.flags, AI_SCENE_FLAGS_TERRAIN)

\* ------------------------------------------------------- entity accessors
\* The per-entity constructors (Mesh::new, Material::new, ...): a wrapper that
\* holds the foreign pointer it was given.
WrapperType(k) ==
    CASE k = "meshes" -> "Mesh"
      [] k = "materials" -> "Material"
      [] k = "animations" -> "Animation"
      [] k = "textures" -> "Texture"
      [] k = "lights" -> "Light"
      [] k = "cameras" -> "Camera"

EntityNew(k, ptr) == [type |-> WrapperType(k), ptr |-> ptr]

NodeNew(ptr) == [type |-> "Node", ptr |-> ptr]

\* slice::from_raw_parts(arr, len): the first len elements, in order.
from_raw_parts(arr, len) == [i \in 1 .. len |-> arr[i]]

\* from_raw_parts(self.K, self.num_K).iter().map(|x| K::new(*x)).collect()
all_SkipsLast(sc, k) ==
    LET len == IF sc.num[k] > 0 THEN sc.num[k] - 1 ELSE 0
        sl  == from_raw_parts(sc.items[k], len)
    IN  [i \in 1 .. Len(sl) |-> EntityNew(k, sl[i])]

all(sc, k) ==
    LET len == sc.num[k]
        sl  == from_raw_parts(sc.items[k], len)
    IN  [i \in 1 .. Len(sl) |-> EntityNew(k, sl[i])]

root_node(sc) == NodeNew(sc.root_node)

num_meshes(sc) == sc.num["meshes"]
meshes(sc) == all(sc, "meshes")
num_materials(sc) == sc.num["materials"]
materials(sc) == all(sc, "materials")
num_animations(sc) == sc.num["animations"]
animations(sc) == all(sc, "animations")
num_textures(sc) == sc.num["textures"]
textures(sc) == all(sc, "textures")
num_lights(sc) == sc.num["lights"]
lights(sc) == all(sc, "lights")
num_cameras(sc) == sc.num["cameras"]
cameras(sc) == all(sc, "cameras")

\* What a call hands back: `tag` says how it ended ("ok": returned val;
\* "panic": the assertion failed and nothing was returned), `touched` is the
\* set of zero-based positions of the mesh array the call read.
Returned(v) == [tag |-> "ok", val |-> v, touched |-> {}]
Panicked == [tag |-> "panic", val |-> NULL, touched |-> {}]

\* assert!(id < num_meshes); Mesh::new(*(self.meshes.offset(id)))
mesh_OffByOne(sc, id) ==
    IF id <= sc.num["meshes"] /\ id < Len(sc.items["meshes"])
    THEN [tag |-> "ok", val |-> EntityNew("meshes", sc.items["meshes"][id + 1]),
          touched |-> {id}]
    ELSE IF id <= sc.num["meshes"]
         THEN [tag |-> "ub", val |-> NULL, touched |-> {id}]
         ELSE Panicked

mesh(sc, id) ==
    IF id < sc.num["meshes"]
    THEN [tag |-> "ok", val |-> EntityNew("meshes", sc.items["meshes"][id + 1]),
          touched |-> {id}]
    ELSE Panicked


\* Every read operation of Scene, by name, with the argument it takes.
FlagOps == {"is_incomplete", "is_validated", "has_validation_warning",
            "is_non_verbose_format", "is_terrain"}
CountOps == {"num_meshes", "num_materials", "num_animations", "num_textures",
             "num_lights", "num_cameras"}
ReadCalls == {<<op, 0>> : op \in FlagOps \cup CountOps \cup Kinds \cup {"root_node"}}
             \cup {<<"mesh", id>> : id \in 0 .. MaxLen + 1}

Call(sc, op, arg) ==
    CASE op = "is_incomplete" -> Returned(is_incomplete(sc))
      [] op = "is_validated" -> Returned(is_validated(sc))
      [] op = "has_validation_warning" -> Returned(has_validation_warning(sc))
      [] op = "is_non_verbose_format" -> Returned(is_non_verbose_format(sc))
      [] op = "is_terrain" -> Returned(is_terrain(sc))
      [] op = "root_node" -> Returned(root_node(sc))
      [] op = "num_meshes" -> Returned(num_meshes(sc))
      [] op = "meshes" -> Returned(meshes(sc))
      [] op = "mesh" -> mesh(sc, arg)
      [] op = "num_materials" -> Returned(num_materials(sc))
      [] op = "materials" -> Returned(materials(sc))
      [] op = "num_animations" -> Returned(num_animations(sc))
      [] op = "animations" -> Returned(animations(sc))
      [] op = "num_textures" -> Returned(num_textures(sc))
      [] op = "textures" -> Returned(textures(sc))
      [] op = "num_lights" -> Returned(num_lights(sc))
      [] op = "lights" -> Returned(lights(sc))
      [] op = "num_cameras" -> Returned(num_cameras(sc))
      [] op = "cameras" -> Returned(cameras(sc))

\* ------------------------------------------------------------------ state
VARIABLES
    heap,       \* the library's memory: scene pointer -> AiScene or Vacant
    handles,    \* handle id -> the Scene / SceneMut value bound to it
    views,      \* the SceneMut handles currently borrowed as &Scene
    conv,       \* the SceneMut::from call in progress, if any
    relImport,  \* pointer -> number of aiReleaseImport calls made on it
    relFree,    \* pointer -> number of aiFreeScene calls made on it
    copies,     \* the aiCopyScene calls made so far
    last        \* the operation that ran last, and what it handed back

vars == <<heap, handles, views, conv, relImport, relFree, copies, last>>

Unused == [kind |-> "unused", ptr |-> NULL]
Idle == [pc |-> "idle", src |-> 0, new_scene |-> NULL]

Did(op, h) == [op |-> op, h |-> h, arg |-> 0, res |-> Returned(NULL)]

Valid(p) == p \in ScenePtrs /\ heap[p].state = "live"

UnusedHandles == {h \in HandleIds : handles[h].kind = "unused"}
NextHandle == CHOOSE h \in UnusedHandles : \A g \in UnusedHandles : h <= g
FreshPtrs == {p \in ScenePtrs : heap[p].state = "unalloc"}
FreshPtr == CHOOSE p \in FreshPtrs : \A q \in FreshPtrs : p <= q

\* What the counts, flags and entity contents of an object are, apart from
\* where the object lives.
Snapshot(sc) == [flags |-> sc.flags, num |-> sc.num, data |-> sc.data]

\* Reading through a pointer that addresses no live object is undefined: the
\* call may crash or hand back whatever the memory holds.
UBOutcomes == {[tag |-> "ub_crash", val |-> NULL, touched |-> {}],
               [tag |-> "ub_garbage", val |-> NULL, touched |-> {}]}

\* ------------------------------------------------------ scenes to import
DataOf(counts, seed) == [k \in Kinds |-> [i \in 1 .. counts[k] |-> seed + i]]

EmptyShape == [flags |-> 0, data |-> NoData]
FullShape ==
    [flags |-> AI_SCENE_FLAGS_VALIDATION_WARNING + AI_SCENE_FLAGS_TERRAIN,
     data  |-> DataOf([k \in Kinds |-> IF k = "meshes" THEN MaxLen ELSE 1], 10)]
Shapes == {EmptyShape, FullShape}


\* ------------------------------------------------------- library routines
\* aiReleaseImport(p): gives the object at p back to the library.
AiReleaseImport(p) ==
    /\ heap' = IF p \in ScenePtrs
               THEN [heap EXCEPT ![p] = Vacant("released", @.prov)]
               ELSE heap
    /\ relImport' = [relImport EXCEPT ![p] = @ + 1]
    /\ UNCHANGED relFree

\* aiFreeScene(p): frees the copy at p.
AiFreeScene(p) ==
    /\ heap' = IF p \in ScenePtrs
               THEN [heap EXCEPT ![p] = Vacant("released", @.prov)]
               ELSE heap
    /\ relFree' = [relFree EXCEPT ![p] = @ + 1]
    /\ UNCHANGED relImport

\* aiCopyScene(src, &mut out): on success a fresh object holding a deep copy
\* of the object at src is stored to out; on failure out is left as it was.
\* The pointers a call may leave in out:
AiCopyOutcomes == {FreshPtr, NULL}

\* ------------------------------------------------------------ operations
\* A scene pointer comes back from an import call and SceneInternal::new
\* wraps it.
ImportScene(shape) ==
    /\ conv.pc = "idle"
    /\ UnusedHandles # {} /\ FreshPtrs # {}
    /\ heap' = [heap EXCEPT ![FreshPtr] =
                    AiScene(FreshPtr, "import", shape.flags, shape.data)]
    /\ handles' = [handles EXCEPT ![NextHandle] =
                    [kind |-> "Scene", ptr |-> FreshPtr]]
    /\ last' = Did("new", NextHandle)
    /\ UNCHANGED <<views, conv, relImport, relFree, copies>>

\* impl Drop for Scene
DropScene(h) ==
    /\ conv.pc = "idle"
    /\ handles[h].kind = "Scene"
    /\ AiReleaseImport(handles[h].ptr)
    /\ handles' = [handles EXCEPT ![h].kind = "dropped"]
    /\ last' = Did("drop", h)
    /\ UNCHANGED <<views, conv, copies>>

\* impl Drop for SceneMut; a borrowed handle cannot be dropped.
DropSceneMut_WrongRoutine(h) ==
    /\ conv.pc = "idle"
    /\ handles[h].kind = "SceneMut" /\ h \notin views
    /\ AiReleaseImport(handles[h].ptr)
    /\ handles' = [handles EXCEPT ![h].kind = "dropped"]
    /\ last' = Did("drop", h)
    /\ UNCHANGED <<views, conv, copies>>

DropSceneMut(h) ==
    /\ conv.pc = "idle"
    /\ handles[h].kind = "SceneMut" /\ h \notin views
    /\ AiFreeScene(handles[h].ptr)
    /\ handles' = [handles EXCEPT ![h].kind = "dropped"]
    /\ last' = Did("drop", h)
    /\ UNCHANGED <<views, conv, copies>>

\* SceneMut::from(scene), first half: new_scene = null; aiCopyScene(scene.0,
\* &mut new_scene).  The argument `scene` is still alive.
FromCopy_ReleasesFirst(h) ==
    /\ conv.pc = "idle"
    /\ handles[h].kind = "Scene"
    /\ UnusedHandles # {} /\ FreshPtrs # {}
    /\ \E out \in AiCopyOutcomes :
          /\ heap' = [p \in ScenePtrs |->
                        IF p = handles[h].ptr THEN Vacant("released", heap[p].prov)
                        ELSE IF p = out
                        THEN AiScene(out, "copy", 0, NoData)
                        ELSE heap[p]]
          /\ conv' = [pc |-> "copied", src |-> h, new_scene |-> out]
          /\ copies' = copies \cup
                {[dst |-> out, src |-> handles[h].ptr, srcLive |-> FALSE,
                  snap |-> Snapshot(heap[handles[h].ptr])]}
    /\ relImport' = [relImport EXCEPT ![handles[h].ptr] = @ + 1]
    /\ last' = Did("copy", h)
    /\ UNCHANGED <<handles, views, relFree>>

FromCopy(h) ==
    /\ conv.pc = "idle"
    /\ handles[h].kind = "Scene"
    /\ UnusedHandles # {} /\ FreshPtrs # {}
    /\ LET src == handles[h].ptr
           live == Valid(src)
           from == IF live THEN heap[src] ELSE Vacant("released", "none")
       IN  \E out \in AiCopyOutcomes :
              /\ heap' = IF out = NULL THEN heap
                         ELSE [heap EXCEPT ![out] =
                                  AiScene(out, "copy", from.flags, from.data)]
              /\ conv' = [pc |-> "copied", src |-> h, new_scene |-> out]
              /\ copies' = copies \cup
                    {[dst |-> out, src |-> src, srcLive |-> live,
                      snap |-> Snapshot(from)]}
    /\ last' = Did("copy", h)
    /\ UNCHANGED <<handles, views, relImport, relFree>>

\* SceneMut::from(scene), second half: SceneMut(new_scene) is handed to the
\* caller and the argument `scene` goes out of scope, which runs Drop for Scene.
FromReturn_WrapsSource ==
    /\ conv.pc = "copied"
    /\ AiReleaseImport(handles[conv.src].ptr)
    /\ handles' = [handles EXCEPT ![conv.src].kind = "dropped",
                                  ![NextHandle] = [kind |-> "SceneMut",
                                                   ptr |-> handles[conv.src].ptr]]
    /\ conv' = Idle
    /\ last' = [Did("from", NextHandle) EXCEPT !.arg = conv.src]
    /\ UNCHANGED <<views, copies>>

FromReturn ==
    /\ conv.pc = "copied"
    /\ AiReleaseImport(handles[conv.src].ptr)
    /\ handles' = [handles EXCEPT ![conv.src].kind = "dropped",
                                  ![NextHandle] = [kind |-> "SceneMut",
                                                   ptr |-> conv.new_scene]]
    /\ conv' = Idle
    /\ last' = [Did("from", NextHandle) EXCEPT !.arg = conv.src]
    /\ UNCHANGED <<views, copies>>

\* impl Deref for Scene (mod private): &*self.0, then the operation runs on
\* the AiScene found there.
SceneCall(s, op, arg) ==
    IF Valid(s.ptr) THEN {Call(heap[s.ptr], op, arg)} ELSE UBOutcomes

\* Any read operation of Scene on an immutable handle.
Read(h, op, arg) ==
    /\ conv.pc = "idle"
    /\ handles[h].kind = "Scene"
    /\ \E r \in SceneCall(handles[h], op, arg) :
          last' = [op |-> op, h |-> h, arg |-> arg, res |-> r]
    /\ UNCHANGED <<heap, handles, views, conv, relImport, relFree, copies>>

\* impl Deref for SceneMut: the &SceneMut reinterpreted as a &Scene, a
\* reference to the same cell, so to the same pointer.
deref(h) == [kind |-> "Scene", ptr |-> handles[h].ptr]

Borrow(h) ==
    /\ conv.pc = "idle"
    /\ handles[h].kind = "SceneMut" /\ h \notin views
    /\ views' = views \cup {h}
    /\ last' = Did("deref", h)
    /\ UNCHANGED <<heap, handles, conv, relImport, relFree, copies>>

\* Any read operation of Scene through the borrowed view.
ReadBorrowed(h, op, arg) ==
    /\ conv.pc = "idle"
    /\ h \in views
    /\ \E r \in SceneCall(deref(h), op, arg) :
          last' = [op |-> op, h |-> h, arg |-> arg, res |-> r]
    /\ UNCHANGED <<heap, handles, views, conv, relImport, relFree, copies>>

\* The &Scene goes out of scope: a reference has no destructor.
EndBorrow_DropsView(h) ==
    /\ conv.pc = "idle"
    /\ h \in views
    /\ views' = views \ {h}
    /\ AiReleaseImport(deref(h).ptr)
    /\ last' = Did("unborrow", h)
    /\ UNCHANGED <<handles, conv, copies>>

EndBorrow(h) ==
    /\ conv.pc = "idle"
    /\ h \in views
    /\ views' = views \ {h}
    /\ last' = Did("unborrow", h)
    /\ UNCHANGED <<heap, handles, conv, relImport, relFree, copies>>

\* SceneInternal::new(x.get_raw_ptr()): a second Scene around the pointer of
\* a handle that is still alive.
SceneFromRawPtr(h) ==
    /\ conv.pc = "idle"
    /\ handles[h].kind \in {"Scene", "SceneMut"}
    /\ UnusedHandles # {}
    /\ handles' = [handles EXCEPT ![NextHandle] =
                    [kind |-> "Scene", ptr |-> handles[h].ptr]]
    /\ last' = [Did("new", NextHandle) EXCEPT !.arg = h]
    /\ UNCHANGED <<heap, views, conv, relImport, relFree, copies>>

\* SceneMutInternal::new(x.get_raw_ptr_mut()): a second SceneMut around the
\* pointer of a SceneMut that is still alive (and not borrowed: &mut self).
SceneMutFromRawPtr(h) ==
    /\ conv.pc = "idle"
    /\ handles[h].kind = "SceneMut" /\ h \notin views
    /\ UnusedHandles # {}
    /\ handles' = [handles EXCEPT ![NextHandle] =
                    [kind |-> "SceneMut", ptr |-> handles[h].ptr]]
    /\ last' = [Did("new", NextHandle) EXCEPT !.arg = h]
    /\ UNCHANGED <<heap, views, conv, relImport, relFree, copies>>

\* ---------------------------------------------------------- specifications
Init ==
    /\ heap = [p \in ScenePtrs |-> Vacant("unalloc", "none")]
    /\ handles = [h \in HandleIds |-> Unused]
    /\ views = {}
    /\ conv = Idle
    /\ relImport = [p \in ScenePtrs \cup {NULL} |-> 0]
    /\ relFree = [p \in ScenePtrs \cup {NULL} |-> 0]
    /\ copies = {}
    /\ last = Did("init", 0)

\* The handle operations of the public surface.
Next ==
    \/ \E shape \in Shapes : ImportScene(shape)
    \/ \E h \in HandleIds : DropScene(h)
    \/ \E h \in HandleIds : DropSceneMut(h)
    \/ \E h \in HandleIds : FromCopy(h)
    \/ FromReturn
    \/ \E h \in HandleIds, c \in ReadCalls : Read(h, c[1], c[2])
    \/ \E h \in HandleIds : Borrow(h)
    \/ \E h \in HandleIds, c \in ReadCalls : ReadBorrowed(h, c[1], c[2])
    \/ \E h \in HandleIds : EndBorrow(h)

Spec == Init /\ [][Next]_vars

\* The same, with the hidden constructors fed the raw pointer of a live handle.
NextRaw ==
    \/ Next
    \/ \E h \in HandleIds : SceneFromRawPtr(h)
    \/ \E h \in HandleIds : SceneMutFromRawPtr(h)

SpecRaw == Init /\ [][NextRaw]_vars

\* One immutable handle over an arbitrary foreign scene, and the read
\* operations applied to it.
ReadInputs ==
    {<<f, [k \in Kinds |-> 0]>> : f \in AllFlagWords}
    \cup {<<f, c>> : f \in {0, AI_SCENE_FLAGS_VALIDATION_WARNING},
                     c \in [Kinds -> 0 .. MaxLen]}

InitRead ==
    /\ \E in \in ReadInputs :
          heap = [p \in ScenePtrs |->
                    IF p = 1 THEN AiScene(1, "import", in[1], DataOf(in[2], 0))
                    ELSE Vacant("unalloc", "none")]
    /\ handles = [h \in HandleIds |->
                    IF h = 1 THEN [kind |-> "Scene", ptr |-> 1] ELSE Unused]
    /\ views = {}
    /\ conv = Idle
    /\ relImport = [p \in ScenePtrs \cup {NULL} |-> 0]
    /\ relFree = [p \in ScenePtrs \cup {NULL} |-> 0]
    /\ copies = {}
    /\ last = Did("new", 1)

NextRead ==
    /\ last.op = "new"
    /\ \E h \in HandleIds, c \in ReadCalls : Read(h, c[1], c[2])

SpecRead == InitRead /\ [][NextRead]_vars


\* ------------------------------------------------------------ the claims
LiveHandles == {h \in HandleIds : handles[h].kind \in {"Scene", "SceneMut"}}
Released(p) == relImport[p] + relFree[p]
\* The handles (and the conversion in progress) answerable for releasing p.
Owners(p) == {h \in LiveHandles : handles[h].ptr = p}
InFlight(p) == conv.pc = "copied" /\ conv.new_scene = p
IsRead(l) == \E c \in ReadCalls : c[1] = l.op

\* C1: every foreign scene object is released exactly once and by the routine
\* of its provenance (imported: aiReleaseImport, copied: aiFreeScene), never
\* twice, never by the other routine, and never left alive without a handle
\* that will release it; empty scenes included.
C1_ReleasedOnceByMatchingRoutine ==
    \A p \in ScenePtrs :
        /\ Released(p) <= 1
        /\ heap[p].prov = "import" => relFree[p] = 0
        /\ heap[p].prov = "copy" => relImport[p] = 0
        /\ heap[p].state = "unalloc" => Released(p) = 0
        /\ heap[p].state = "released" => Released(p) = 1
        /\ heap[p].state = "live" =>
              /\ Released(p) = 0
              /\ Cardinality(Owners(p)) + (IF InFlight(p) THEN 1 ELSE 0) = 1

\* An empty scene was imported, copied, and both objects were released, each
\* by its own routine, and no handle is left.
C1_Witness ==
    /\ LiveHandles = {} /\ conv.pc = "idle"
    /\ \E c \in copies :
          /\ c.dst # NULL
          /\ \A k \in Kinds : c.snap.num[k] = 0
          /\ relImport[c.src] = 1 /\ relFree[c.src] = 0
          /\ relFree[c.dst] = 1 /\ relImport[c.dst] = 0

\* C2 as stated: right after a conversion (one whose copy was made) the
\* source handle is still alive and no release routine has run on the
\* original pointer.
C2_SourceSurvivesConversion ==
    (last.op = "from" /\ handles[last.h].ptr # NULL) =>
        /\ handles[last.arg].kind = "Scene"
        /\ Released(handles[last.arg].ptr) = 0

\* C2, amended: while the conversion runs (the copy made, the call not yet
\* returned) the source handle is alive and its pointer unreleased; when the
\* conversion has returned the source handle is gone, its pointer has been
\* released exactly once, by aiReleaseImport, and the new mutable handle
\* wraps another pointer, which when non-null is alive, unreleased and owned
\* by that handle alone.
C2_SourceConsumedByConversion ==
    /\ conv.pc = "copied" =>
          /\ handles[conv.src].kind = "Scene"
          /\ Valid(handles[conv.src].ptr)
          /\ Released(handles[conv.src].ptr) = 0
          /\ conv.new_scene # handles[conv.src].ptr
    /\ last.op = "from" =>
          LET src == handles[last.arg].ptr
              new == handles[last.h].ptr
          IN  /\ handles[last.arg].kind = "dropped"
              /\ relImport[src] = 1 /\ relFree[src] = 0
              /\ handles[last.h].kind = "SceneMut"
              /\ new # src
              /\ new # NULL =>
                    /\ Valid(new) /\ Released(new) = 0
                    /\ Owners(new) = {last.h}

\* A conversion has just returned a handle around a copy.
C2_Witness ==
    /\ last.op = "from"
    /\ handles[last.h].ptr # NULL
    /\ relImport[handles[last.arg].ptr] = 1

\* What every read operation hands back on the object sc.
ReadsOf(sc) == [c \in ReadCalls |-> Call(sc, c[1], c[2])]

\* C3: every SceneMut made by the conversion wraps a live object other than
\* its source, with the counts and entity contents the source had when it was
\* copied, and with the source destroyed every read operation on it still
\* reads that live object and hands back what it did when the copy was made.
C3_CopyEqualAndIndependent ==
    \A h \in HandleIds :
        handles[h].kind = "SceneMut" =>
            LET p == handles[h].ptr
            IN  /\ p # NULL
                /\ Valid(p)
                /\ \E c \in copies :
                      /\ c.dst = p /\ c.src # p
                      /\ Snapshot(heap[p]) = c.snap
                      /\ \A call \in ReadCalls :
                            SceneCall(deref(h), call[1], call[2]) =
                                {ReadsOf(AiScene(p, "copy", c.snap.flags,
                                                 c.snap.data))[call]}

\* The same statement for the conversions whose copy succeeded only.
C3_HoldsWhenCopySucceeded ==
    \A h \in HandleIds :
        (handles[h].kind = "SceneMut" /\ handles[h].ptr # NULL) =>
            LET p == handles[h].ptr
            IN  /\ Valid(p)
                /\ \E c \in copies :
                      /\ c.dst = p /\ c.src # p
                      /\ Snapshot(heap[p]) = c.snap
                      /\ heap[c.src].state = "released"
                      /\ \A call \in ReadCalls :
                            SceneCall(deref(h), call[1], call[2]) =
                                {ReadsOf(AiScene(p, "copy", c.snap.flags,
                                                 c.snap.data))[call]}

\* C4: no SceneMut ever wraps a null pointer, so aiFreeScene is never called
\* on null and no read operation ever runs on a null scene pointer.
C4_NoSceneMutAroundNull ==
    /\ \A h \in HandleIds :
          handles[h].kind = "SceneMut" => handles[h].ptr # NULL
    /\ relFree[NULL] = 0
    /\ IsRead(last) => handles[last.h].ptr # NULL

\* C5: no two live handles wrap the same foreign pointer (each of them
\* answerable for releasing it).
C5_NoTwoOwnersOfOnePointer ==
    \A h1, h2 \in LiveHandles :
        (handles[h1].ptr = handles[h2].ptr /\ handles[h1].ptr # NULL) => h1 = h2

\* C6: mesh(id) with id >= num_meshes() panics, returns nothing and reads no
\* element of the array; with id < num_meshes() it returns a Mesh around the
\* pointer stored at position id.
C6_MeshIndexChecked ==
    last.op = "mesh" =>
        LET sc == heap[handles[last.h].ptr]
        IN  IF last.arg >= num_meshes(sc)
            THEN /\ last.res.tag = "panic"
                 /\ last.res.touched = {}
            ELSE /\ last.res.tag = "ok"
                 /\ last.res.touched = {last.arg}
                 /\ last.res.val = [type |-> "Mesh",
                                    ptr |-> sc.items["meshes"][last.arg + 1]]

\* mesh(num_meshes()) was called on a scene that has meshes.
C6_Witness ==
    /\ last.op = "mesh"
    /\ last.arg = heap[handles[last.h].ptr].num["meshes"]
    /\ last.arg > 0
    /\ last.res.tag = "panic"

C8_BorrowReadsAndNeverReleases ==
    /\ \A p \in ScenePtrs : heap[p].prov = "copy" => relImport[p] = 0
    /\ \A h \in HandleIds :
          (handles[h].kind = "SceneMut" /\ handles[h].ptr # NULL) =>
              /\ Valid(handles[h].ptr)
              /\ Released(handles[h].ptr) = 0
    /\ \A h \in views : handles[h].kind = "SceneMut"
    /\ (IsRead(last) /\ handles[last.h].kind = "SceneMut"
            /\ handles[last.h].ptr # NULL) =>
          last.res \in SceneCall([kind |-> "Scene", ptr |-> handles[last.h].ptr],
                                 last.op, last.arg)

\* A view of a SceneMut around a copy was discarded.
C8_Witness ==
    /\ last.op = "unborrow"
    /\ Valid(handles[last.h].ptr)
    /\ heap[handles[last.h].ptr].prov = "copy"

\* C9: each flag predicate returns true exactly when its own bit is set in
\* the flag word.
BitOf(op) ==
    CASE op = "is_incomplete" -> AI_SCENE_FLAGS_INCOMPLETE
      [] op = "is_validated" -> AI_SCENE_FLAGS_VALIDATED
      [] op = "has_validation_warning" -> AI_SCENE_FLAGS_VALIDATION_WARNING
      [] op = "is_non_verbose_format" -> AI_SCENE_FLAGS_NON_VERBOSE_FORMAT
      [] op = "is_terrain" -> AI_SCENE_FLAGS_TERRAIN
BitsSet(flags) == {b \in FlagBits : (flags \div b) % 2 = 1}

C9_FlagPredicatesIndependent ==
    last.op \in FlagOps =>
        /\ last.res.tag = "ok"
        /\ last.res.val = (BitOf(last.op) \in
                              BitsSet(heap[handles[last.h].ptr].flags))

\* has_validation_warning() returned true on a flag word holding only the
\* validation-warning bit.
C9_Witness ==
    /\ last.op = "has_validation_warning"
    /\ heap[handles[last.h].ptr].flags = AI_SCENE_FLAGS_VALIDATION_WARNING
    /\ last.res.val = TRUE

\* C10: aiCopyScene always reads a source that has not been released, and the
\* source's aiReleaseImport has not happened when the copy call has returned
\* and the conversion has not.
C10_CopyBeforeRelease ==
    /\ \A c \in copies : c.srcLive /\ relImport[c.src] <= 1
    /\ conv.pc = "copied" =>
          /\ Valid(handles[conv.src].ptr)
          /\ relImport[handles[conv.src].ptr] = 0

\* The copy call has returned a copy and the conversion has not returned yet.
C10_Witness ==
    /\ conv.pc = "copied"
    /\ conv.new_scene # NULL
    /\ \E c \in copies : c.dst = conv.new_scene /\ c.srcLive

====
